---- MODULE Spec2Model ----
(***************************************************************************)
(* A model of the PIMS file importer (pims/importer/importer.py) and of    *)
(* the PNG and BMP format descriptors (pims/formats/common/png.py,         *)
(* bmp.py).                                                                *)
(*                                                                         *)
(* One FileImporter.run is a sequential flow; its position is pc[i], named *)
(* after the source line it is about to execute.  Several importers share  *)
(* the filesystem fs and the wall clock now.                               *)
(***************************************************************************)
EXTENDS Integers, Sequences, FiniteSets, TLC

\* ------------------------------------------------------------------ bounds
NumImporters == 2
NumListeners == 2

Importers == 1..NumImporters

\* ------------------------------------------------------- optional values
None == <<>>
Some(x) == <<x>>
Get(o) == o[1]

\* ------------------------------------------------------------------ paths
\* A path is the sequence of its components.
PENDING_PATH == <<"pending">>
FILE_ROOT_PATH == <<"root">>
UPLOAD_DIR_PREFIX == "upload"
PROCESSED_DIR == "processed"
ORIGINAL_STEM == "original"
SPATIAL_STEM == "spatial"
HISTOGRAM_STEM == "histogram"

Parent(p) == SubSeq(p, 1, Len(p) - 1)
Name(p) == p[Len(p)]
Join(p, n) == Append(p, n)

\* f"{stem}.{identifier}"
StemName(stem, id) == stem \o "." \o id

\* ---------------------------------------------------------------- formats
\* Formats are named by their identifier.  PNG and BMP are the descriptors
\* of this repository; NSP stands for a descriptor that is not spatial, ZIP
\* for the archive adapter's container format and PYRTIFF for the target of
\* a conversion.
ImageFormats == <<"BMP", "PNG", "NSP">>
ArchiveFormat == "ZIP"
ConversionFormat == "PYRTIFF"
Identifiers == {ImageFormats[k] : k \in 1..Len(ImageFormats)} \cup {ArchiveFormat, ConversionFormat}

\* The leading bytes a checker may be given.
Signatures ==
    { <<>>, <<66>>, <<66, 77>>, <<66, 77, 54, 0>>,
      <<137, 80, 78>>, <<137, 80, 78, 71>>, <<137, 80, 78, 71, 13, 10>>,
      <<80, 75, 3, 4>>, <<78, 83, 80, 1>>, <<0, 0, 0, 0>> }

PNGCheckerMatch(buf) ==
    /\ Len(buf) > 3
    /\ buf[1] = 137
    /\ buf[2] = 80
    /\ buf[3] = 78
    /\ buf[4] = 71

BMPCheckerMatch(buf) ==
    /\ Len(buf) > 1
    /\ buf[1] = 66
    /\ buf[2] = 77

NSPCheckerMatch(buf) ==
    /\ Len(buf) > 2
    /\ buf[1] = 78
    /\ buf[2] = 83
    /\ buf[3] = 80

CheckerMatch(f, buf) ==
    CASE f = "PNG" -> PNGCheckerMatch(buf)
      [] f = "BMP" -> BMPCheckerMatch(buf)
      [] f = "NSP" -> NSPCheckerMatch(buf)
      [] OTHER -> FALSE

\* FormatFactory().match: the first registered descriptor whose checker
\* accepts the signature, or None.
FormatFactoryMatch(buf) ==
    LET hits == {k \in 1..Len(ImageFormats) : CheckerMatch(ImageFormats[k], buf)}
    IN  IF hits = {} THEN None
        ELSE Some(ImageFormats[CHOOSE k \in hits : \A m \in hits : k <= m])

\* Archive.from_path: an archive (named by its format) or None.
ArchiveFromPath(buf) ==
    IF Len(buf) > 3 /\ buf[1] = 80 /\ buf[2] = 75 /\ buf[3] = 3 /\ buf[4] = 4
    THEN Some(ArchiveFormat)
    ELSE None

PNGIsSpatial == TRUE
BMPIsSpatial == TRUE

IsSpatial(f) ==
    CASE f = "PNG" -> PNGIsSpatial
      [] f = "BMP" -> BMPIsSpatial
      [] OTHER -> FALSE

\* need_conversion of PNGFormat and BMPFormat: not (width < 1024 and height < 1024)
ConversionLimit == 1024

\* A faulty variant: the limit itself is taken as small enough.
PNGNeedConversion_LimitIncluded(imd) ==
    ~(imd.width <= ConversionLimit /\ imd.height <= ConversionLimit)

PNGNeedConversion(imd) == ~(imd.width < ConversionLimit /\ imd.height < ConversionLimit)

BMPNeedConversion(imd) == ~(imd.width < ConversionLimit /\ imd.height < ConversionLimit)

NeedConversion(f, imd) ==
    CASE f = "PNG" -> PNGNeedConversion(imd)
      [] f = "BMP" -> BMPNeedConversion(imd)
      [] OTHER -> FALSE

\* PNGParser.parse_main_metadata: TRUE when it raises MetadataParsingProblem.
PNGParseMainRejects(imd) == imd.n_channels \notin {1, 3}

\* The main metadata a parser may read from a file.
Dims == {ConversionLimit - 1, ConversionLimit}
Channels == {1, 2, 3, 4}
MainImds == [width : Dims, height : Dims, n_channels : Channels]

\* --------------------------------------------------------------- metadata
\* A raw metadata value: absent (Python's None), a number or a string.
Absent == [t |-> "none", v |-> 0, s |-> ""]
Num(n) == [t |-> "num", v |-> n, s |-> ""]
Str(x) == [t |-> "str", v |-> 0, s |-> x]

\* The strings float() accepts, with their values.
Numerals == ("0" :> 0) @@ ("300" :> 300) @@ ("5000" :> 5000)

\* pims.formats.utils.metadata.parse_float: the number, or None.
parse_float(value) ==
    CASE value.t = "num" -> Some(value.v)
      [] value.t = "str" /\ value.s \in DOMAIN Numerals -> Some(Numerals[value.s])
      [] OTHER -> None

\* What a physical-size computation gives: a quantity num/den in a unit,
\* None, or an exception.
Quantity(num, den, unit) == [kind |-> "quantity", num |-> num, den |-> den, unit |-> unit]
NoSize == [kind |-> "None", num |-> 0, den |-> 1, unit |-> ""]
Raised(exception) == [kind |-> exception, num |-> 0, den |-> 1, unit |-> ""]

\* supported_units of PNGParser.parse_physical_size: by code, and by name
\* when the unit is a string.
UnitCodes == (1 :> "meter") @@ (2 :> "inch")
UnitNames == ("meters" :> "meter") @@ ("inches" :> "inch")

UnitSupported(unit) ==
    CASE unit.t = "str" -> unit.s \in DOMAIN UnitNames
      [] unit.t = "num" -> unit.v \in DOMAIN UnitCodes
      [] OTHER -> FALSE

\* supported_units[unit]
SupportedUnit(unit) == IF unit.t = "str" THEN UnitNames[unit.s] ELSE UnitCodes[unit.v]

\* A faulty variant: the unit is looked up without asking whether the table
\* has it, which raises KeyError when it has not.
PNGParsePhysicalSize_UnitUnchecked(physical_size, unit, inverse) ==
    IF physical_size.t # "none" /\ parse_float(physical_size) # None
    THEN LET value == Get(parse_float(physical_size))
         IN  IF inverse /\ value = 0 THEN Raised("ZeroDivisionError")
             ELSE IF ~UnitSupported(unit) THEN Raised("KeyError")
             ELSE IF inverse THEN Quantity(1, value, SupportedUnit(unit))
             ELSE Quantity(value, 1, SupportedUnit(unit))
    ELSE NoSize

\* PNGParser.parse_physical_size; 1 / 0.0 raises ZeroDivisionError.
PNGParsePhysicalSize(physical_size, unit, inverse) ==
    IF physical_size.t # "none" /\ parse_float(physical_size) # None /\ UnitSupported(unit)
    THEN LET value == Get(parse_float(physical_size))
         IN  IF inverse
             THEN IF value = 0 THEN Raised("ZeroDivisionError")
                  ELSE Quantity(1, value, SupportedUnit(unit))
             ELSE Quantity(value, 1, SupportedUnit(unit))
    ELSE NoSize

\* BMPParser.parse_physical_size: File.PixelsPerMeterX/Y, zero guarded.
BMPParsePhysicalSize(physical_size) ==
    IF /\ physical_size.t # "none"
       /\ parse_float(physical_size) # None
       /\ Get(parse_float(physical_size)) # 0
    THEN Quantity(1, Get(parse_float(physical_size)), "meter")
    ELSE NoSize

\* The physical sizes parse_known_metadata leaves in imd, or the exception
\* that left it.
Sizes(x, y) == [kind |-> "imd", x |-> x, y |-> y]
SizesRaised(exception) == [kind |-> exception, x |-> NoSize, y |-> NoSize]

\* PNGParser.parse_known_metadata, lines 58-66: the PNG tags with inverse =
\* True; the EXIF tags, with inverse = False, only when both sizes are None.
PNGParseKnownMetadata(raw) ==
    LET x == PNGParsePhysicalSize(raw.PixelsPerUnitX, raw.PixelUnits, TRUE)
        y == PNGParsePhysicalSize(raw.PixelsPerUnitY, raw.PixelUnits, TRUE)
        ex == PNGParsePhysicalSize(raw.XResolution, raw.ResolutionUnit, FALSE)
        ey == PNGParsePhysicalSize(raw.YResolution, raw.ResolutionUnit, FALSE)
    IN  IF x.kind \notin {"quantity", "None"} THEN SizesRaised(x.kind)
        ELSE IF y.kind \notin {"quantity", "None"} THEN SizesRaised(y.kind)
        ELSE IF x = NoSize /\ y = NoSize
        THEN IF ex.kind \notin {"quantity", "None"} THEN SizesRaised(ex.kind)
             ELSE IF ey.kind \notin {"quantity", "None"} THEN SizesRaised(ey.kind)
             ELSE Sizes(ex, ey)
        ELSE Sizes(x, y)

\* BMPParser.parse_known_metadata, lines 47-48.
BMPParseKnownMetadata(raw) ==
    Sizes(BMPParsePhysicalSize(raw.PixelsPerMeterX),
          BMPParsePhysicalSize(raw.PixelsPerMeterY))

\* The densities and the units a tag store may hold.
Densities == {Absent, Num(0), Num(300), Num(5000), Str("5000"), Str("0"), Str("abc"), Str("")}
Units == {Absent, Num(0), Num(1), Num(2), Num(3),
          Str("meters"), Str("inches"), Str("cm"), Str("1")}

\* The tag stores parse_known_metadata is run on.
TagDensities == {Absent, Num(0), Num(300), Num(5000), Str("abc")}
TagUnits == {Absent, Num(2), Str("meters"), Str("cm")}
PNGRaws ==
    [PixelsPerUnitX : TagDensities, PixelsPerUnitY : TagDensities, PixelUnits : TagUnits,
     XResolution : TagDensities, YResolution : TagDensities, ResolutionUnit : TagUnits]
BMPRaws == [PixelsPerMeterX : Densities, PixelsPerMeterY : Densities]

NoCall == [call |-> "none"]

\* ------------------------------------------------------------------ state
VARIABLES
    now,    \* the wall clock, in microseconds
    fs,     \* the filesystem: a set of nodes [path, kind, target, data]
    imp,    \* imp[i]: the fields of FileImporter i and the locals of its run
    pc,     \* pc[i]: the line run i is about to execute ("idle", "done")
    last,   \* last[i]: the latest notification of run i and how each listener took it
    meta    \* the latest call of a metadata parser: its arguments and its result

vars == <<now, fs, imp, pc, last, meta>>

\* ------------------------------------------------------------- filesystem
DirNode(p) == [path |-> p, kind |-> "dir", target |-> None, data |-> "none"]
FileNode(p, d) == [path |-> p, kind |-> "file", target |-> None, data |-> d]
LinkNode(p, t) == [path |-> p, kind |-> "link", target |-> t, data |-> "none"]

Exists(f, p) == \E n \in f : n.path = p
NodeAt(f, p) == CHOOSE n \in f : n.path = p
IsDir(f, p) == \E n \in f : n.path = p /\ n.kind = "dir"
Without(f, p) == {n \in f : n.path # p}

\* Path.mkdir(): FileExistsError, FileNotFoundError or another OSError.
MkdirFails(f, p, oserror) == Exists(f, p) \/ ~IsDir(f, Parent(p)) \/ oserror
MkdirEffect(f, p) == f \cup {DirNode(p)}

\* Path.symlink_to(target)
SymlinkFails(f, p, oserror) == Exists(f, p) \/ ~IsDir(f, Parent(p)) \/ oserror
SymlinkEffect(f, p, t) == f \cup {LinkNode(p, t)}

\* shutil.copy / shutil.move of a file
TransferFails(f, origin, dest, oserror) ==
    ~Exists(f, origin) \/ ~IsDir(f, Parent(dest)) \/ oserror
CopyEffect(f, origin, dest) ==
    Without(f, dest) \cup {[NodeAt(f, origin) EXCEPT !.path = dest]}
\* A faulty variant: the origin is left in place.
MoveEffect_KeepsOrigin(f, origin, dest) ==
    Without(f, dest) \cup {NodeAt(f, origin), [NodeAt(f, origin) EXCEPT !.path = dest]}

MoveEffect(f, origin, dest) ==
    Without(Without(f, dest), origin) \cup {[NodeAt(f, origin) EXCEPT !.path = dest]}

\* Path.has_original_role(), has_spatial_role(), has_histogram_role()
HasRole(p, stem) ==
    IF stem = HISTOGRAM_STEM
    THEN Name(p) = HISTOGRAM_STEM
    ELSE \E id \in Identifiers : Name(p) = StemName(stem, id)

\* The artifacts of a processed directory that hold a role.
Artifacts(f, dir, stem) == {n \in f : Parent(n.path) = dir /\ HasRole(n.path, stem)}

\* ---------------------------------------------------------- notifications
\* What a listener does when notify reaches it: its hook runs ("ok"), the
\* lookup of the hook (or the hook itself) raises AttributeError ("nohook"),
\* or its hook raises an exception that is no AttributeError ("raise").
Behaviours == {"ok", "nohook", "raise"}

\* What the listeners of a list of n do in one notification.  A listener that
\* comes after one that raises is never called, so what it would have done
\* is left at "ok".
BehaviourLists(n) ==
    {bs \in [1..n -> Behaviours] :
        \A k, m \in 1..n : (k < m /\ bs[k] = "raise") => bs[m] = "ok"}

\* FileImporter.notify over loggers behaving as bs: the listeners the loop
\* reached, and the index of the one whose exception left the loop (0: none).
\* Only AttributeError is caught.
\* A faulty variant: the loop ends at the first listener without a hook.
NotifyLoop_StopsAtMissingHook(bs) ==
    LET stops == {k \in 1..Len(bs) : bs[k] # "ok"}
        first == IF stops = {} THEN 0
                 ELSE CHOOSE k \in stops : \A m \in stops : k <= m
    IN  [reached |-> IF first = 0 THEN 1..Len(bs) ELSE 1..first,
         raisedBy |-> IF first # 0 /\ bs[first] = "raise" THEN first ELSE 0]

NotifyLoop(bs) ==
    LET raisers == {k \in 1..Len(bs) : bs[k] = "raise"}
        first == IF raisers = {} THEN 0
                 ELSE CHOOSE k \in raisers : \A m \in raisers : k <= m
    IN  [reached |-> IF first = 0 THEN 1..Len(bs) ELSE 1..first,
         raisedBy |-> first]

\* The notification emitted at each line: the event, then either the line
\* that follows or the exception the code raises right after it.
Note(ev, next, exc) == [ev |-> ev, next |-> next, exc |-> exc]

NotifyPoints ==
    [L113 |-> Note("START_DATA_EXTRACTION", "L116", None),
     L118 |-> Note("FILE_NOT_FOUND", "", Some("FilepathNotFoundProblem")),
     L134 |-> Note("MOVED_PENDING_FILE", "L136", None),
     L136 |-> Note("END_DATA_EXTRACTION", "L139", None),
     L139 |-> Note("START_FORMAT_DETECTION", "L142", None),
     L150 |-> Note("ERROR_NO_FORMAT", "", Some("NoMatchingFormatProblem")),
     L152 |-> Note("END_FORMAT_DETECTION", "L157", None),
     L166 |-> Note("START_UNPACKING", "L169", None),
     L171 |-> Note("ERROR_UNPACKING", "", Some("FileErrorProblem")),
     L188 |-> Note("END_UNPACKING", "L204", None),
     L194 |-> Note("END_UNPACKING", "", Some("NotImplementedError")),
     L204 |-> Note("START_INTEGRITY_CHECK", "L206", None),
     L208 |-> Note("ERROR_INTEGRITY_CHECK", "", Some("ImageParsingProblem")),
     L213 |-> Note("END_INTEGRITY_CHECK", "L215", None),
     L223 |-> Note("END_SUCCESSFUL_IMPORT", "L225", None),
     L227 |-> Note("FILE_ERROR", "L229", None),
     L232 |-> Note("START_SPATIAL_DEPLOY", "L233", None),
     L239 |-> Note("START_CONVERSION", "L242", None),
     L244 |-> Note("ERROR_CONVERSION", "", Some("FormatConversionProblem")),
     L248 |-> Note("ERROR_CONVERSION", "", Some("FormatConversionProblem")),
     L252 |-> Note("END_CONVERSION", "L255", None),
     L255 |-> Note("START_FORMAT_DETECTION", "L256", None),
     L258 |-> Note("ERROR_NO_FORMAT", "", Some("NoMatchingFormatProblem")),
     L260 |-> Note("END_FORMAT_DETECTION", "L263", None),
     L266 |-> Note("START_INTEGRITY_CHECK", "L267", None),
     L269 |-> Note("ERROR_INTEGRITY_CHECK", "", Some("ImageParsingProblem")),
     L274 |-> Note("END_INTEGRITY_CHECK", "L284", None),
     L284 |-> Note("END_SPATIAL_DEPLOY", "L288", None),
     L289 |-> Note("START_HISTOGRAM_DEPLOY", "L292", None),
     L296 |-> Note("ERROR_HISTOGRAM", "", Some("FileErrorProblem")),
     L303 |-> Note("END_HISTOGRAM_DEPLOY", "L223", None),
     L312 |-> Note("FILE_ERROR", "", Some("FileErrorProblem")),
     L322 |-> Note("FILE_NOT_MOVED", "", Some("FileErrorProblem")),
     L332 |-> Note("FILE_ERROR", "", Some("FileErrorProblem"))]

\* The lines of deploy_spatial inside "try: ... except Exception" (235-246).
ConversionTry == {"L236", "L239", "L242", "L244"}

\* A faulty variant: run has no handler, an exception leaves it at once.
Raise_NoHandler(i, exc, at) ==
    IF at \in ConversionTry
    THEN /\ pc' = [pc EXCEPT ![i] = "L248"]
         /\ imp' = imp
    ELSE /\ pc' = [pc EXCEPT ![i] = "done"]
         /\ imp' = [imp EXCEPT ![i].raised = Some(exc), ![i].exc = Some(exc)]

\* Where an exception raised at line `at` takes run i: to the handler of the
\* conversion (247), to the handler of run (226), or, raised inside that
\* handler, out of run.
Raise(i, exc, at) ==
    IF at \in ConversionTry
    THEN /\ pc' = [pc EXCEPT ![i] = "L248"]
         /\ imp' = imp
    ELSE IF at = "L227"
    THEN /\ pc' = [pc EXCEPT ![i] = "done"]
         /\ imp' = [imp EXCEPT ![i].raised = Some(exc)]
    ELSE /\ pc' = [pc EXCEPT ![i] = "L227"]
         /\ imp' = [imp EXCEPT ![i].exc = Some(exc)]

\* self.notify(...) at a line of NotifyPoints.
Notify(i) ==
    /\ pc[i] \in DOMAIN NotifyPoints
    /\ \E bs \in BehaviourLists(imp[i].nloggers) :
        LET note == NotifyPoints[pc[i]]
            r == NotifyLoop(bs)
        IN  /\ last' = [last EXCEPT ![i] = [ev |-> note.ev, at |-> pc[i], bs |-> bs,
                                             reached |-> r.reached]]
            /\ IF r.raisedBy # 0
               THEN Raise(i, "ListenerError", pc[i])
               ELSE IF note.exc # None
               THEN Raise(i, Get(note.exc), pc[i])
               ELSE /\ pc' = [pc EXCEPT ![i] = note.next]
                    /\ imp' = imp
    /\ UNCHANGED <<meta, now, fs>>

\* ------------------------------------------------------------ construction
PendingFiles ==
    { <<"pending", "a.img">>,       \* a direct child of the pending area
      <<"pending", "b.img">>,       \* another one
      <<"pending", "missing">>,     \* no such file
      <<"elsewhere", "a.img">> }    \* an existing file outside the pending area

InitialFs ==
    { DirNode(PENDING_PATH), DirNode(FILE_ROOT_PATH), DirNode(<<"elsewhere">>),
      FileNode(<<"pending", "a.img">>, "a"),
      FileNode(<<"pending", "b.img">>, "b"),
      FileNode(<<"elsewhere", "a.img">>, "e") }

PendingNames == {None, Some("renamed")}

\* FileImporter.__init__
NewImporter(pending_file, pending_name, nloggers) ==
    [ pending_file |-> pending_file,
      pending_name |-> pending_name,
      nloggers |-> nloggers,
      prefer_copy |-> FALSE,
      upload_dir |-> None,
      upload_path |-> None,
      original_path |-> None,
      original |-> None,
      spatial_path |-> None,
      spatial |-> None,
      histogram_path |-> None,
      histogram |-> None,
      processed_dir |-> None,
      \* locals of run
      format |-> None,
      archive |-> None,
      imd |-> None,
      conversion |-> None,
      spatial_format |-> None,
      spatial_match |-> None,
      spatial_errors |-> None,
      image |-> None,
      created |-> <<>>,
      exc |-> None,
      \* how run ended
      raised |-> None,
      returned |-> None,
      \* built to retry an import that failed
      retry |-> FALSE ]

NoNotification == [ev |-> "none", at |-> "none", bs |-> <<>>, reached |-> {}]

\* One importer with NumListeners listeners, given any pending file; the
\* other importers are not built.
Init ==
    /\ now = 0
    /\ fs = InitialFs
    /\ \E f \in PendingFiles \ {<<"pending", "b.img">>}, n \in PendingNames :
         imp = [i \in Importers |-> IF i = 1 THEN NewImporter(f, n, NumListeners)
                                    ELSE NewImporter(<<"pending", "missing">>, None, 0)]
    /\ pc = [i \in Importers |-> IF i = 1 THEN "ready" ELSE "idle"]
    /\ last = [i \in Importers |-> NoNotification]
    /\ meta = NoCall

\* ------------------------------------------------------------------- run
\* run(prefer_copy) is called.
Run(i) ==
    /\ pc[i] = "ready"
    /\ \E prefer_copy \in BOOLEAN :
         imp' = [imp EXCEPT ![i].prefer_copy = prefer_copy]
    /\ pc' = [pc EXCEPT ![i] = "L113"]
    /\ UNCHANGED <<meta, now, fs, last>>

\* 116-117: the pending file is a direct child of the pending area and exists.
PendingOk(f, pending_file) ==
    ~(Parent(pending_file) # PENDING_PATH \/ ~Exists(f, pending_file))

CheckPending(i) ==
    /\ pc[i] = "L116"
    /\ pc' = [pc EXCEPT ![i] = IF PendingOk(fs, imp[i].pending_file) THEN "L122" ELSE "L118"]
    /\ UNCHANGED <<meta, now, fs, imp, last>>

\* unique_name_generator(): the clock's reading in microseconds.
unique_name_generator(clock) == clock

\* 122-124: the clock is read; since its last reading it has stood still or
\* moved on (by how much does not matter to the names).
AllocateUploadDir(i) ==
    /\ pc[i] = "L122"
    /\ \E t \in {now, now + 1} :
        /\ now' = t
        /\ imp' = [imp EXCEPT ![i].upload_dir =
                     Some(Join(FILE_ROOT_PATH,
                               UPLOAD_DIR_PREFIX \o ToString(unique_name_generator(t))))]
    /\ pc' = [pc EXCEPT ![i] = "L125"]
    /\ UNCHANGED <<meta, fs, last>>

\* 125: self.mkdir(self.upload_dir)
MkdirUploadDir(i) ==
    /\ pc[i] = "L125"
    /\ \E oserror \in BOOLEAN :
        LET d == Get(imp[i].upload_dir)
        IN  IF MkdirFails(fs, d, oserror)
            THEN /\ pc' = [pc EXCEPT ![i] = "L312"]
                 /\ fs' = fs
            ELSE /\ pc' = [pc EXCEPT ![i] = "L127"]
                 /\ fs' = MkdirEffect(fs, d)
    /\ UNCHANGED <<meta, now, imp, last>>

\* 127-133: the pending file is moved, or copied, into the upload directory.
MovePendingFile(i) ==
    /\ pc[i] = "L127"
    /\ \E oserror \in BOOLEAN :
        LET name == IF imp[i].pending_name # None THEN Get(imp[i].pending_name)
                    ELSE Name(imp[i].pending_file)
            dest == Join(Get(imp[i].upload_dir), name)
            origin == imp[i].pending_file
        IN  /\ imp' = [imp EXCEPT ![i].upload_path = Some(dest)]
            /\ IF TransferFails(fs, origin, dest, oserror)
               THEN /\ pc' = [pc EXCEPT ![i] = "L322"]
                    /\ fs' = fs
               ELSE /\ pc' = [pc EXCEPT ![i] = "L134"]
                    /\ fs' = IF imp[i].prefer_copy THEN CopyEffect(fs, origin, dest)
                             ELSE MoveEffect(fs, origin, dest)
    /\ UNCHANGED <<meta, now, last>>

\* 141-149: the registry is asked, then the archive adapter.
DetectFormat(i) ==
    /\ pc[i] = "L142"
    /\ \E buf \in Signatures :
        LET matched == FormatFactoryMatch(buf)
            archive == IF matched = None THEN ArchiveFromPath(buf) ELSE None
            format == IF matched = None /\ archive # None THEN archive ELSE matched
        IN  /\ imp' = [imp EXCEPT ![i].format = format, ![i].archive = archive]
            /\ pc' = [pc EXCEPT ![i] = IF format = None THEN "L150" ELSE "L152"]
    /\ UNCHANGED <<meta, now, fs, last>>

\* 156-164: the processed directory and the path of the Original artifact.
MkdirProcessedDir(i) ==
    /\ pc[i] = "L157"
    /\ \E oserror \in BOOLEAN :
        LET d == Join(Get(imp[i].upload_dir), PROCESSED_DIR)
            original_path == Join(d, StemName(ORIGINAL_STEM, Get(imp[i].format)))
        IN  IF MkdirFails(fs, d, oserror)
            THEN /\ pc' = [pc EXCEPT ![i] = "L312"]
                 /\ imp' = [imp EXCEPT ![i].processed_dir = Some(d)]
                 /\ fs' = fs
            ELSE /\ pc' = [pc EXCEPT ![i] = IF imp[i].archive # None THEN "L166" ELSE "L200"]
                 /\ imp' = [imp EXCEPT ![i].processed_dir = Some(d),
                                       ![i].original_path = Some(original_path)]
                 /\ fs' = MkdirEffect(fs, d)
    /\ UNCHANGED <<meta, now, last>>

\* 169: archive.extract(self.original_path)
ExtractArchive(i) ==
    /\ pc[i] = "L169"
    /\ \E outcome \in {"extracted", "ArchiveError", "OtherError"} :
        LET p == Get(imp[i].original_path)
        IN  CASE outcome = "extracted" ->
                   /\ fs' = fs \cup {FileNode(p, "payload")}
                   /\ imp' = [imp EXCEPT ![i].created = Append(@, ORIGINAL_STEM)]
                   /\ pc' = [pc EXCEPT ![i] = "L178"]
              [] outcome = "ArchiveError" ->
                   /\ fs' = fs
                   /\ imp' = imp
                   /\ pc' = [pc EXCEPT ![i] = "L171"]
              [] OTHER ->
                   /\ fs' = fs
                   /\ Raise(i, "OtherError", "L169")
    /\ UNCHANGED <<meta, now, last>>

\* 178-179: detection is run again, on the extracted payload.
MatchExtracted(i) ==
    /\ pc[i] = "L178"
    /\ \E buf \in Signatures :
        LET format == FormatFactoryMatch(buf)
        IN  /\ imp' = [imp EXCEPT ![i].format = format]
            /\ pc' = [pc EXCEPT ![i] = IF format # None THEN "L181" ELSE "L194"]
    /\ UNCHANGED <<meta, now, fs, last>>

\* 181-186: the extracted artifact is renamed after the payload's format.
RenameOriginal(i) ==
    /\ pc[i] = "L181"
    /\ \E oserror \in BOOLEAN :
        LET original_filename == StemName(ORIGINAL_STEM, Get(imp[i].format))
            new_original_path == Join(Get(imp[i].processed_dir), original_filename)
            origin == Get(imp[i].original_path)
        IN  IF TransferFails(fs, origin, new_original_path, oserror)
            THEN /\ pc' = [pc EXCEPT ![i] = "L322"]
                 /\ imp' = imp
                 /\ fs' = fs
            ELSE /\ pc' = [pc EXCEPT ![i] = "L188"]
                 /\ imp' = [imp EXCEPT ![i].original_path = Some(new_original_path)]
                 /\ fs' = MoveEffect(fs, origin, new_original_path)
    /\ UNCHANGED <<meta, now, last>>

\* 200-201: without an archive the Original artifact is a link to the upload.
LinkOriginal(i) ==
    /\ pc[i] = "L200"
    /\ \E oserror \in BOOLEAN :
        LET p == Get(imp[i].original_path)
        IN  IF SymlinkFails(fs, p, oserror)
            THEN /\ pc' = [pc EXCEPT ![i] = "L332"]
                 /\ imp' = imp
                 /\ fs' = fs
            ELSE /\ pc' = [pc EXCEPT ![i] = "L204"]
                 /\ imp' = [imp EXCEPT ![i].created = Append(@, ORIGINAL_STEM)]
                 /\ fs' = SymlinkEffect(fs, p, Get(imp[i].upload_path))
    /\ UNCHANGED <<meta, now, last>>

\* The errors a descriptor's parser reports on main metadata.
ParserRejects(f, imd) ==
    CASE f = "PNG" -> PNGParseMainRejects(imd)
      [] OTHER -> FALSE

\* A faulty variant: the errors of the integrity check are not looked at.
CheckOriginalIntegrity_ErrorsIgnored(i) ==
    /\ pc[i] = "L206"
    /\ \E imd \in MainImds, unreadable \in BOOLEAN :
        LET original == [path |-> Get(imp[i].original_path), format |-> Get(imp[i].format)]
        IN  /\ imp' = [imp EXCEPT ![i].original = Some(original),
                                  ![i].imd = IF unreadable THEN None ELSE Some(imd)]
            /\ pc' = [pc EXCEPT ![i] = "L213"]
    /\ UNCHANGED <<meta, now, fs, last>>

\* 205-207: Image(original_path, format).check_integrity(metadata=True); the
\* file may be unreadable, or its parser may reject it.
CheckOriginalIntegrity(i) ==
    /\ pc[i] = "L206"
    /\ \E imd \in MainImds, unreadable \in BOOLEAN :
        LET original == [path |-> Get(imp[i].original_path), format |-> Get(imp[i].format)]
            errors == unreadable \/ ParserRejects(Get(imp[i].format), imd)
        IN  /\ imp' = [imp EXCEPT ![i].original = Some(original),
                                  ![i].imd = IF unreadable THEN None ELSE Some(imd)]
            /\ pc' = [pc EXCEPT ![i] = IF errors THEN "L208" ELSE "L213"]
    /\ UNCHANGED <<meta, now, fs, last>>

\* 215-218
CheckSpatialFormat(i) ==
    /\ pc[i] = "L215"
    /\ IF IsSpatial(Get(imp[i].format))
       THEN /\ pc' = [pc EXCEPT ![i] = "L232"]
            /\ imp' = imp
       ELSE Raise(i, "NotImplementedError", "L215")
    /\ UNCHANGED <<meta, now, fs, last>>

\* 233-238, 276: the descriptor says whether the Original must be converted;
\* looking the conversion target up may raise.
ChooseSpatialPath(i) ==
    /\ pc[i] = "L233"
    /\ IF NeedConversion(Get(imp[i].format), Get(imp[i].imd))
       THEN \E raises \in BOOLEAN :
              IF raises
              THEN Raise(i, "OtherError", "L236")
              ELSE /\ imp' = [imp EXCEPT ![i].spatial_path =
                        Some(Join(Get(imp[i].processed_dir),
                                  StemName(SPATIAL_STEM, ConversionFormat)))]
                   /\ pc' = [pc EXCEPT ![i] = "L239"]
       ELSE /\ pc' = [pc EXCEPT ![i] = "L278"]
            /\ imp' = imp
    /\ UNCHANGED <<meta, now, fs, last>>

\* A faulty variant: the target file is not looked for.
ConversionFailed_TargetNotChecked(r, exists) == r = "falsy"

\* 243: not r or not self.spatial_path.exists()
ConversionFailed(r, exists) == r = "falsy" \/ ~exists

\* 242-243: format.convert(spatial_path) returns something truthy or falsy, or
\* raises, and has or has not written the target.
Convert(i) ==
    /\ pc[i] = "L242"
    /\ \E r \in {"truthy", "falsy", "raise"}, written \in BOOLEAN :
        LET p == Get(imp[i].spatial_path)
            after == IF written THEN fs \cup {FileNode(p, "converted")} ELSE fs
        IN  /\ fs' = after
            /\ imp' = [imp EXCEPT ![i].conversion = Some([r |-> r, written |-> written]),
                                  ![i].created = IF written THEN Append(@, SPATIAL_STEM) ELSE @]
            /\ pc' = [pc EXCEPT ![i] =
                        IF r = "raise" THEN "L248"
                        ELSE IF ConversionFailed(r, Exists(after, p)) THEN "L244"
                        ELSE "L252"]
    /\ UNCHANGED <<meta, now, last>>

\* 256-257: SpatialReadableFormatFactory().match(spatial_path)
MatchSpatial(i) ==
    /\ pc[i] = "L256"
    /\ \E matched \in BOOLEAN :
        /\ imp' = [imp EXCEPT ![i].spatial_format =
                                  IF matched THEN Some(ConversionFormat) ELSE None,
                              ![i].spatial_match = Some(matched)]
        /\ pc' = [pc EXCEPT ![i] = IF matched THEN "L260" ELSE "L258"]
    /\ UNCHANGED <<meta, now, fs, last>>

\* 263
NewSpatialImage(i) ==
    /\ pc[i] = "L263"
    /\ imp' = [imp EXCEPT ![i].spatial =
                 Some([path |-> Get(imp[i].spatial_path),
                       format |-> Get(imp[i].spatial_format)])]
    /\ pc' = [pc EXCEPT ![i] = "L266"]
    /\ UNCHANGED <<meta, now, fs, last>>

\* 267-268
CheckSpatialIntegrity(i) ==
    /\ pc[i] = "L267"
    /\ \E errors \in BOOLEAN :
        /\ imp' = [imp EXCEPT ![i].spatial_errors = Some(errors)]
        /\ pc' = [pc EXCEPT ![i] = IF errors THEN "L269" ELSE "L274"]
    /\ UNCHANGED <<meta, now, fs, last>>

\* 278-283: no conversion, the Spatial artifact is a link to the Original.
LinkSpatial(i) ==
    /\ pc[i] = "L278"
    /\ \E oserror \in BOOLEAN :
        LET format == Get(imp[i].format)
            p == Join(Get(imp[i].processed_dir), StemName(SPATIAL_STEM, format))
        IN  IF SymlinkFails(fs, p, oserror)
            THEN /\ pc' = [pc EXCEPT ![i] = "L332"]
                 /\ imp' = [imp EXCEPT ![i].spatial_path = Some(p)]
                 /\ fs' = fs
            ELSE /\ pc' = [pc EXCEPT ![i] = "L284"]
                 /\ imp' = [imp EXCEPT ![i].spatial_path = Some(p),
                                       ![i].spatial = Some([path |-> p, format |-> format]),
                                       ![i].created = Append(@, SPATIAL_STEM)]
                 /\ fs' = SymlinkEffect(fs, p, Get(imp[i].original_path))
    /\ UNCHANGED <<meta, now, last>>

\* Image.get_spatial(): an artifact of the image's processed directory that
\* holds the Spatial role, or None.
GetSpatial(f, processed_dir) ==
    IF Artifacts(f, processed_dir, SPATIAL_STEM) = {} THEN {None}
    ELSE {Some(n.path) : n \in Artifacts(f, processed_dir, SPATIAL_STEM)}

\* 220, 288: deploy_histogram(self.original.get_spatial())
EnterDeployHistogram(i) ==
    /\ pc[i] = "L288"
    /\ \E image \in GetSpatial(fs, Get(imp[i].processed_dir)) :
        imp' = [imp EXCEPT ![i].image = image,
                           ![i].histogram_path =
                               Some(Join(Get(imp[i].processed_dir), HISTOGRAM_STEM))]
    /\ pc' = [pc EXCEPT ![i] = "L289"]
    /\ UNCHANGED <<meta, now, fs, last>>

\* 291-302: build_histogram_file(image, histogram_path, FAST)
BuildHistogram(i) ==
    /\ pc[i] = "L292"
    /\ \E outcome \in {"built", "FileError", "OtherError"} :
        LET p == Get(imp[i].histogram_path)
        IN  CASE outcome = "built" /\ ~Exists(fs, p) ->
                   /\ fs' = fs \cup {FileNode(p, "histogram")}
                   /\ imp' = [imp EXCEPT ![i].histogram =
                                Some([path |-> p, image |-> imp[i].image]),
                              ![i].created = Append(@, HISTOGRAM_STEM)]
                   /\ pc' = [pc EXCEPT ![i] = "L303"]
              [] outcome = "OtherError" ->
                   /\ fs' = fs
                   /\ Raise(i, "OtherError", "L292")
              [] OTHER ->
                   /\ fs' = fs
                   /\ imp' = imp
                   /\ pc' = [pc EXCEPT ![i] = "L296"]
    /\ UNCHANGED <<meta, now, last>>

\* 225: return [self.upload_path]
Return(i) ==
    /\ pc[i] = "L225"
    /\ imp' = [imp EXCEPT ![i].returned = Some(<<Get(imp[i].upload_path)>>)]
    /\ pc' = [pc EXCEPT ![i] = "done"]
    /\ UNCHANGED <<meta, now, fs, last>>

\* 229: raise e
Reraise(i) ==
    /\ pc[i] = "L229"
    /\ imp' = [imp EXCEPT ![i].raised = imp[i].exc]
    /\ pc' = [pc EXCEPT ![i] = "done"]
    /\ UNCHANGED <<meta, now, fs, last>>

\* The caller retries an import that failed after its pending file was moved
\* away: a fresh FileImporter is built on the same pending file reference,
\* with as many listeners, and takes the place of the one that failed.
Retry(i) ==
    /\ pc[i] = "done"
    /\ imp[i].raised # None
    /\ ~imp[i].retry
    /\ ~imp[i].prefer_copy
    /\ imp[i].upload_path # None
    /\ Exists(fs, Get(imp[i].upload_path))
    /\ imp' = [imp EXCEPT ![i] =
                 [NewImporter(imp[i].pending_file, imp[i].pending_name, imp[i].nloggers)
                     EXCEPT !.retry = TRUE]]
    /\ pc' = [pc EXCEPT ![i] = "ready"]
    /\ last' = [last EXCEPT ![i] = NoNotification]
    /\ UNCHANGED <<meta, now, fs>>

\* ---------------------------------------------------------- specification
\* A step of run i, from its first notification to its return or raise.
Step(i) ==
    \/ Notify(i)
    \/ CheckPending(i)
    \/ AllocateUploadDir(i)
    \/ MkdirUploadDir(i)
    \/ MovePendingFile(i)
    \/ DetectFormat(i)
    \/ MkdirProcessedDir(i)
    \/ ExtractArchive(i)
    \/ MatchExtracted(i)
    \/ RenameOriginal(i)
    \/ LinkOriginal(i)
    \/ CheckOriginalIntegrity(i)
    \/ CheckSpatialFormat(i)
    \/ ChooseSpatialPath(i)
    \/ Convert(i)
    \/ MatchSpatial(i)
    \/ NewSpatialImage(i)
    \/ CheckSpatialIntegrity(i)
    \/ LinkSpatial(i)
    \/ EnterDeployHistogram(i)
    \/ BuildHistogram(i)
    \/ Return(i)
    \/ Reraise(i)

Next ==
    \E i \in Importers :
        \/ Run(i)
        \/ Step(i)
        \/ Retry(i)

Spec == Init /\ [][Next]_vars

\* ------------------------------------------------------ fair specification
\* One importer with one listener, named after its pending file, whose run
\* is called once.  run is sequential code whose calls all return or raise:
\* once called, it goes on to its next step.
InitLive ==
    /\ now = 0
    /\ fs = InitialFs
    /\ \E f \in PendingFiles \ {<<"pending", "b.img">>} :
         imp = [i \in Importers |-> IF i = 1 THEN NewImporter(f, None, 1)
                                    ELSE NewImporter(<<"pending", "missing">>, None, 0)]
    /\ pc = [i \in Importers |-> IF i = 1 THEN "ready" ELSE "idle"]
    /\ last = [i \in Importers |-> NoNotification]
    /\ meta = NoCall

NextLive ==
    \E i \in Importers :
        \/ Run(i)
        \/ Step(i)

SpecLive == InitLive /\ [][NextLive]_vars /\ \A i \in Importers : WF_vars(Step(i))

\* ----------------------------------------------- concurrent specification
\* Every importer is built, with one listener, on a pending file of the
\* pending area (two importers may be given the same one); the runs interleave
\* through the relocation of the pending file.  The two pending files are
\* alike, so the first importer is given a.img.
InitConc ==
    /\ now = 0
    /\ fs = InitialFs
    /\ imp \in [Importers -> {NewImporter(f, None, 1) :
                               f \in {<<"pending", "a.img">>, <<"pending", "b.img">>}}]
    /\ imp[1].pending_file = <<"pending", "a.img">>
    /\ pc = [i \in Importers |-> "ready"]
    /\ last = [i \in Importers |-> NoNotification]
    /\ meta = NoCall

NextConc ==
    \E i \in Importers :
        \/ Run(i)
        \/ Notify(i)
        \/ CheckPending(i)
        \/ AllocateUploadDir(i)
        \/ MkdirUploadDir(i)
        \/ MovePendingFile(i)
        \/ Reraise(i)

SpecConc == InitConc /\ [][NextConc]_vars

\* ------------------------------------------------- metadata specification
\* PNGParser.parse_physical_size is called on a density and a unit.
CallPNGParsePhysicalSize ==
    /\ meta = NoCall
    /\ \E physical_size \in Densities, unit \in Units, inverse \in BOOLEAN :
         meta' = [call |-> "PNGParser.parse_physical_size",
                  physical_size |-> physical_size, unit |-> unit, inverse |-> inverse,
                  result |-> PNGParsePhysicalSize(physical_size, unit, inverse)]
    /\ UNCHANGED <<now, fs, imp, pc, last>>

\* PNGParser.parse_known_metadata is run on a tag store.
CallPNGParseKnownMetadata ==
    /\ meta = NoCall
    /\ \E raw \in PNGRaws :
         meta' = [call |-> "PNGParser.parse_known_metadata", raw |-> raw,
                  result |-> PNGParseKnownMetadata(raw)]
    /\ UNCHANGED <<now, fs, imp, pc, last>>

\* BMPParser.parse_known_metadata is run on a tag store.
CallBMPParseKnownMetadata ==
    /\ meta = NoCall
    /\ \E raw \in BMPRaws :
         meta' = [call |-> "BMPParser.parse_known_metadata", raw |-> raw,
                  result |-> BMPParseKnownMetadata(raw)]
    /\ UNCHANGED <<now, fs, imp, pc, last>>

\* The call has returned or raised; the parser may be called again.
EndCall ==
    /\ meta # NoCall
    /\ meta' = NoCall
    /\ UNCHANGED <<now, fs, imp, pc, last>>

InitMeta ==
    /\ now = 0
    /\ fs = InitialFs
    /\ imp = [i \in Importers |-> NewImporter(<<"pending", "missing">>, None, 0)]
    /\ pc = [i \in Importers |-> "idle"]
    /\ last = [i \in Importers |-> NoNotification]
    /\ meta = NoCall

NextMeta ==
    \/ CallPNGParsePhysicalSize
    \/ CallPNGParseKnownMetadata
    \/ CallBMPParseKnownMetadata
    \/ EndCall

SpecMeta == InitMeta /\ [][NextMeta]_vars

\* ------------------------------------------------------------- vocabulary
Done(i) == pc[i] = "done"
Succeeded(i) == imp[i].returned # None
Failed(i) == imp[i].raised # None

Listeners(i) == 1..imp[i].nloggers

\* Run i has just emitted the notification of line p.
Notified(i, p) == last[i].at = p

\* The artifacts run i's processed directory holds in a role.
Holding(i, stem) ==
    IF imp[i].processed_dir = None THEN {}
    ELSE Artifacts(fs, Get(imp[i].processed_dir), stem)

\* ------------------------------------------------------------------ C1
\* C1: whenever a listener raises inside its hook, every listener of the
\* list still receives the notification, and the listener's exception never
\* becomes the exception run handles or ends with.
C1_ListenerErrorIsolated ==
    \A i \in Importers :
        /\ (\E k \in Listeners(i) : last[i].ev # "none" /\ last[i].bs[k] = "raise")
              => last[i].reached = Listeners(i)
        /\ imp[i].exc # Some("ListenerError")
        /\ imp[i].raised # Some("ListenerError")

\* ------------------------------------------------------------------ C2
\* The line run goes to after a notification none of whose listeners raised.
AfterNotification(p) ==
    IF NotifyPoints[p].exc = None THEN NotifyPoints[p].next
    ELSE IF p \in ConversionTry THEN "L248"
    ELSE "L227"

\* C2: in every notification, a listener without the hook does not keep the
\* listener after it from being reached, and when no listener raises the run
\* goes on to what follows the notification in the code.
C2_MissingHookSkipped ==
    [][\A i \in Importers :
          (pc[i] \in DOMAIN NotifyPoints /\ pc'[i] # pc[i]) =>
              LET bs == last'[i].bs
              IN  /\ \A k \in Listeners(i) :
                       (k \in last'[i].reached /\ bs[k] = "nohook" /\ k + 1 \in Listeners(i))
                           => k + 1 \in last'[i].reached
                  /\ (\A k \in Listeners(i) : bs[k] # "raise")
                       => /\ last'[i].reached = Listeners(i)
                          /\ pc'[i] = AfterNotification(pc[i])]_vars

\* A listener without the hook was passed by, the next one ran its hook, and
\* the run went on to check the pending file.
C2_Witness ==
    \E i \in Importers :
        /\ Notified(i, "L113")
        /\ last[i].bs[1] = "nohook"
        /\ last[i].bs[2] = "ok"
        /\ last[i].reached = Listeners(i)
        /\ pc[i] = "L116"

\* ------------------------------------------------------------------ C3
\* C3: a run given a pending file that is no direct child of the pending
\* area, or does not exist, ends with FilepathNotFoundProblem and leaves the
\* filesystem as it was.
C3_NotFoundAborts ==
    \A i \in Importers :
        (pc[i] # "idle" /\ ~PendingOk(InitialFs, imp[i].pending_file)) =>
            /\ fs = InitialFs
            /\ imp[i].upload_dir = None
            /\ ~Succeeded(i)
            /\ Done(i) => imp[i].raised = Some("FilepathNotFoundProblem")

\* ------------------------------------------------------------------ C4
\* The PNG parser has rejected the channel count of run i's Original.
ChannelsRejected(i) ==
    /\ imp[i].original # None
    /\ imp[i].imd # None
    /\ Get(imp[i].original).format = "PNG"
    /\ PNGParseMainRejects(Get(imp[i].imd))

\* C4: a run whose PNG parser rejects the channel count ends with the
\* parsing-problem error, with no Spatial and no Histogram artifact.
C4_ChannelRejectionFails ==
    \A i \in Importers :
        ChannelsRejected(i) =>
            /\ Holding(i, SPATIAL_STEM) = {}
            /\ Holding(i, HISTOGRAM_STEM) = {}
            /\ ~Succeeded(i)
            /\ Done(i) => imp[i].raised = Some("ImageParsingProblem")

\* ------------------------------------------------------------------ C5
\* The conversion of run i returned something falsy, left no target file, or
\* raised.
ConversionWentWrong(i) ==
    /\ imp[i].conversion # None
    /\ \/ Get(imp[i].conversion).r # "truthy"
       \/ ~Get(imp[i].conversion).written

\* C5: a run whose conversion goes wrong ends with FormatConversionProblem,
\* deploys no histogram and never notifies success.
C5_ConversionFailureFails ==
    \A i \in Importers :
        ConversionWentWrong(i) =>
            /\ imp[i].histogram = None
            /\ Holding(i, HISTOGRAM_STEM) = {}
            /\ last[i].ev # "END_SUCCESSFUL_IMPORT"
            /\ ~Succeeded(i)
            /\ Done(i) => imp[i].raised = Some("FormatConversionProblem")

\* ------------------------------------------------------------------ C6
\* The path an Original artifact named after the container's format has.
ContainerNamedOriginal(i) ==
    Join(Get(imp[i].processed_dir), StemName(ORIGINAL_STEM, Get(imp[i].archive)))

\* C6: when the upload was taken for an archive and its payload matched a
\* descriptor, the Original that is verified carries the payload's format and
\* is named after it, and it is the only artifact in the Original role: none
\* named after the container's format is left.
C6_OriginalNamedAfterPayload ==
    \A i \in Importers :
        (imp[i].archive # None /\ imp[i].original # None) =>
            LET o == Get(imp[i].original)
            IN  /\ o.format = Get(imp[i].format)
                /\ o.format # Get(imp[i].archive)
                /\ o.path = Get(imp[i].original_path)
                /\ Name(o.path) = StemName(ORIGINAL_STEM, o.format)
                /\ ~Exists(fs, ContainerNamedOriginal(i))
                /\ Holding(i, ORIGINAL_STEM) = {FileNode(o.path, "payload")}

\* A PNG payload of an archive has been verified as original.PNG.
C6_Witness ==
    \E i \in Importers :
        /\ imp[i].archive = Some(ArchiveFormat)
        /\ imp[i].original # None
        /\ Get(imp[i].original).format = "PNG"
        /\ Name(Get(imp[i].original).path) = "original.PNG"
        /\ Succeeded(i)

\* ------------------------------------------------------------------ C7
\* C7: after a successful run the processed directory holds exactly one
\* artifact in each role; the Histogram artifact was created last, and from
\* the Spatial artifact of this import.
C7_OneArtifactPerRole ==
    \A i \in Importers :
        Succeeded(i) =>
            /\ Cardinality(Holding(i, ORIGINAL_STEM)) = 1
            /\ Cardinality(Holding(i, SPATIAL_STEM)) = 1
            /\ Cardinality(Holding(i, HISTOGRAM_STEM)) = 1
            /\ imp[i].created = <<ORIGINAL_STEM, SPATIAL_STEM, HISTOGRAM_STEM>>
            /\ imp[i].histogram # None
            /\ Get(imp[i].histogram).image = imp[i].spatial_path
            /\ Holding(i, SPATIAL_STEM) = {NodeAt(fs, Get(imp[i].spatial_path))}
            /\ Holding(i, HISTOGRAM_STEM) = {NodeAt(fs, Get(imp[i].histogram).path)}

\* A run has succeeded after a conversion.
C7_Witness ==
    \E i \in Importers :
        /\ Succeeded(i)
        /\ imp[i].conversion # None
        /\ Cardinality(Holding(i, SPATIAL_STEM)) = 1

\* ------------------------------------------------------------------ C8
SmallImage(imd) == imd.width < 1024 /\ imd.height < 1024

\* The Spatial artifact of run i is deployed.
SpatialDeployed(i) ==
    /\ imp[i].spatial # None
    /\ imp[i].imd # None
    /\ Get(imp[i].format) \in {"PNG", "BMP"}

C9_UploadDirsDistinct ==
    \A i, j \in Importers :
        (i # j /\ imp[i].upload_dir # None /\ imp[j].upload_dir # None)
            => imp[i].upload_dir # imp[j].upload_dir

\* ------------------------------------------------------------------ C10
\* A unit the PNG computation does not know: absent, a code other than 1 and
\* 2, a name other than "meters" and "inches".
UnrecognizedUnit(unit) ==
    \/ unit.t = "none"
    \/ unit.t = "num" /\ unit.v \notin {1, 2}
    \/ unit.t = "str" /\ unit.s \notin {"meters", "inches"}

\* A density that is absent or no number.
NonNumericDensity(physical_size) ==
    \/ physical_size.t = "none"
    \/ physical_size.t = "str" /\ physical_size.s \notin {"0", "300", "5000"}

\* C10: PNGParser.parse_physical_size gives None, and raises nothing, when
\* the unit is unrecognized or the density is absent or no number.
C10_UnknownSizeNeverRaises ==
    meta.call = "PNGParser.parse_physical_size" =>
        ((UnrecognizedUnit(meta.unit) \/ NonNumericDensity(meta.physical_size))
            => meta.result = NoSize)

\* The computation was given the density 5000 with the unit name "cm".
C10_Witness ==
    /\ meta.call = "PNGParser.parse_physical_size"
    /\ meta.physical_size = Num(5000)
    /\ meta.unit = Str("cm")
    /\ meta.inverse
    /\ meta.result = NoSize

\* ------------------------------------------------------------------ C11
\* The size a pixels-per-unit density resolves to: 1/density in the unit.
InverseOf(density, unit) == Quantity(1, Get(parse_float(density)), unit)

\* A size is what a density tag and a unit tag resolve to as pixels-per-unit.
ResolvedInverse(size, density, unit) ==
    /\ density.t # "none"
    /\ parse_float(density) # None
    /\ UnitSupported(unit)
    /\ size = InverseOf(density, SupportedUnit(unit))

\* C11: a physical size resolved from PNG.PixelsPerUnitX/Y, from
\* EXIF.XResolution/YResolution or from BMP File.PixelsPerMeterX/Y is the
\* inverse of the density, in the resolved unit.
C11_SizeIsInverseDensity ==
    /\ meta.call = "PNGParser.parse_known_metadata" =>
          LET raw == meta.raw
              r == meta.result
          IN  /\ r.x.kind = "quantity" =>
                    \/ ResolvedInverse(r.x, raw.PixelsPerUnitX, raw.PixelUnits)
                    \/ ResolvedInverse(r.x, raw.XResolution, raw.ResolutionUnit)
              /\ r.y.kind = "quantity" =>
                    \/ ResolvedInverse(r.y, raw.PixelsPerUnitY, raw.PixelUnits)
                    \/ ResolvedInverse(r.y, raw.YResolution, raw.ResolutionUnit)
    /\ meta.call = "BMPParser.parse_known_metadata" =>
          LET raw == meta.raw
              r == meta.result
          IN  /\ r.x.kind = "quantity" => r.x = InverseOf(raw.PixelsPerMeterX, "meter")
              /\ r.y.kind = "quantity" => r.y = InverseOf(raw.PixelsPerMeterY, "meter")

\* ------------------------------------------------------------------ C12
\* The size of one axis, given what its PNG tag and its EXIF field resolve
\* to: the PNG tag's when it yields a value, otherwise the EXIF field's
\* (whichever way the density is read).
AxisFallback(size, density, unit, resolution, resolutionUnit) ==
    IF PNGParsePhysicalSize(density, unit, TRUE).kind = "quantity"
    THEN size = PNGParsePhysicalSize(density, unit, TRUE)
    ELSE IF PNGParsePhysicalSize(resolution, resolutionUnit, FALSE).kind = "quantity"
    THEN /\ size.kind = "quantity"
         /\ size.unit = SupportedUnit(resolutionUnit)
         /\ Get(parse_float(resolution)) \in {size.num, size.den}
    ELSE size = NoSize

\* C12: PNGParser.parse_known_metadata resolves X and Y each on its own: from
\* the PNG tag when it yields a value, otherwise from the EXIF field.
C12_PerAxisFallback ==
    (meta.call = "PNGParser.parse_known_metadata" /\ meta.result.kind = "imd") =>
        LET raw == meta.raw
            r == meta.result
        IN  /\ AxisFallback(r.x, raw.PixelsPerUnitX, raw.PixelUnits,
                             raw.XResolution, raw.ResolutionUnit)
            /\ AxisFallback(r.y, raw.PixelsPerUnitY, raw.PixelUnits,
                             raw.YResolution, raw.ResolutionUnit)

\* ------------------------------------------------------------------ C13
\* The errors the stages of run raise; OtherError is an error of a
\* collaborator that the stage lets through as it is.
StageErrors ==
    {"FilepathNotFoundProblem", "FileErrorProblem", "NoMatchingFormatProblem",
     "ImageParsingProblem", "FormatConversionProblem", "NotImplementedError",
     "OtherError"}

\* C13: a run that has failed has notified every listener of the failure, and
\* the error its caller gets is the error the failing stage raised.
C13_FailureIsStageError ==
    \A i \in Importers :
        Failed(i) =>
            /\ Get(imp[i].raised) \in StageErrors
            /\ imp[i].raised = imp[i].exc
            /\ last[i].ev = "FILE_ERROR"
            /\ last[i].reached = Listeners(i)

\* ------------------------------------------------------------------ C14
\* The lines run i is at once a stage has failed: the error notifications
\* that come before a raise, the handler of run, and the end of a failed run.
OnFailurePath(i) ==
    \/ pc[i] \in {p \in DOMAIN NotifyPoints : NotifyPoints[p].exc # None}
    \/ pc[i] \in {"L227", "L229"}
    \/ pc[i] = "done" /\ Failed(i)

\* C14: from the failure of a stage on, run leaves the filesystem as it is:
\* what was created stays and a moved pending file does not come back; and
\* a fresh run on the same pending file reference ends with
\* FilepathNotFoundProblem, having created nothing.
C14_NoCleanup ==
    [][\A i \in Importers :
          /\ OnFailurePath(i) => fs' = fs
          /\ (imp'[i].retry /\ pc'[i] = "done") =>
                /\ imp'[i].raised = Some("FilepathNotFoundProblem")
                /\ imp'[i].upload_dir = None
                /\ fs' = fs]_vars

\* ------------------------------------------------------------------ C15
\* The payload extracted by run i matched no descriptor.
MultiFilePayload(i) == imp[i].archive # None /\ imp[i].format = None

\* The integrity check of run i's Original found no error.
OriginalVerified(i) ==
    /\ imp[i].original # None
    /\ imp[i].imd # None
    /\ ~ParserRejects(Get(imp[i].format), Get(imp[i].imd))

\* C15: a run whose extracted payload matches no descriptor, or whose
\* verified Original has a descriptor that is not spatial, ends with
\* NotImplementedError, with no Spatial and no Histogram artifact and without
\* notifying success.
C15_UnimplementedFails ==
    \A i \in Importers :
        (MultiFilePayload(i) \/ (OriginalVerified(i) /\ ~IsSpatial(Get(imp[i].format)))) =>
            /\ Holding(i, SPATIAL_STEM) = {}
            /\ Holding(i, HISTOGRAM_STEM) = {}
            /\ last[i].ev # "END_SUCCESSFUL_IMPORT"
            /\ ~Succeeded(i)
            /\ Done(i) => imp[i].raised = Some("NotImplementedError")

\* ------------------------------------------------------------------ C16
\* For the notification that opens a stage (and for the one of success), the
\* notifications one of which must have come just before it: the end of the
\* stage before, or, for a stage inside the spatial deployment, the start of
\* the deployment or the end of the step before.
Preceding ==
    [L113 |-> {"none"},     \* START_DATA_EXTRACTION
     L139 |-> {"L136"},     \* START_FORMAT_DETECTION after END_DATA_EXTRACTION
     L166 |-> {"L152"},     \* START_UNPACKING after END_FORMAT_DETECTION
     L204 |-> {"L152", "L188"},  \* START_INTEGRITY_CHECK after detection or unpacking
     L232 |-> {"L213"},     \* START_SPATIAL_DEPLOY after END_INTEGRITY_CHECK
     L239 |-> {"L232"},     \* START_CONVERSION inside the spatial deployment
     L255 |-> {"L252"},     \* START_FORMAT_DETECTION after END_CONVERSION
     L266 |-> {"L260"},     \* START_INTEGRITY_CHECK after END_FORMAT_DETECTION
     L289 |-> {"L284"},     \* START_HISTOGRAM_DEPLOY after END_SPATIAL_DEPLOY
     L223 |-> {"L303"}]     \* END_SUCCESSFUL_IMPORT after END_HISTOGRAM_DEPLOY

\* The latest notification of run i reached every listener and none raised.
Delivered(i) ==
    /\ last[i].reached = Listeners(i)
    /\ \A k \in Listeners(i) : last[i].bs[k] # "raise"

\* C16: a stage is opened only right after the stage before it was closed;
\* the spatial deployment only after the integrity check of the Original
\* ended without errors, the histogram deployment only after the spatial
\* deployment ended with its artifact; the artifacts are created in the order
\* Original, Spatial, Histogram; and once run has returned or raised it
\* notifies nothing and creates nothing.
C16_StagesInOrder ==
    [][\A i \in Importers :
          /\ (pc[i] \in DOMAIN Preceding /\ pc'[i] # pc[i]) =>
                /\ last[i].at \in Preceding[pc[i]]
                /\ last[i].at # "none" => Delivered(i)
          /\ (pc[i] = "L232" /\ pc'[i] # pc[i]) => OriginalVerified(i)
          /\ (pc[i] = "L289" /\ pc'[i] # pc[i]) =>
                /\ imp[i].spatial # None
                /\ Holding(i, SPATIAL_STEM) # {}
                /\ Holding(i, HISTOGRAM_STEM) = {}
          /\ \E n \in 0..3 :
                imp'[i].created = SubSeq(<<ORIGINAL_STEM, SPATIAL_STEM, HISTOGRAM_STEM>>, 1, n)
          /\ pc[i] = "done" =>
                /\ fs' = fs
                /\ \/ last'[i] = last[i] /\ pc'[i] = "done"
                   \/ imp'[i].retry /\ ~imp[i].retry /\ pc'[i] = "ready"]_vars

\* A run has gone through every stage, unpacking and conversion included,
\* and has notified success.
C16_Witness ==
    \E i \in Importers :
        /\ Succeeded(i)
        /\ imp[i].archive # None
        /\ imp[i].conversion # None
        /\ last[i].at = "L223"

\* ------------------------------------------------------------------ C17
\* For each notification that opens a stage, the notifications that close it.
Matching ==
    [L113 |-> {"L136"},           \* START_DATA_EXTRACTION, END_DATA_EXTRACTION
     L139 |-> {"L152"},           \* START_FORMAT_DETECTION, END_FORMAT_DETECTION
     L166 |-> {"L188", "L194"},   \* START_UNPACKING, END_UNPACKING
     L204 |-> {"L213"},           \* START_INTEGRITY_CHECK, END_INTEGRITY_CHECK
     L232 |-> {"L284"},           \* START_SPATIAL_DEPLOY, END_SPATIAL_DEPLOY
     L239 |-> {"L252"},           \* START_CONVERSION, END_CONVERSION
     L255 |-> {"L260"},           \* START_FORMAT_DETECTION, END_FORMAT_DETECTION
     L266 |-> {"L274"},           \* START_INTEGRITY_CHECK, END_INTEGRITY_CHECK
     L289 |-> {"L303"}]           \* START_HISTOGRAM_DEPLOY, END_HISTOGRAM_DEPLOY

ErrorEvents ==
    {"FILE_NOT_FOUND", "FILE_NOT_MOVED", "FILE_ERROR", "ERROR_NO_FORMAT", "ERROR_UNPACKING",
     "ERROR_INTEGRITY_CHECK", "ERROR_CONVERSION", "ERROR_HISTOGRAM"}

\* C17: in the run of importer 1 (the one that is called), a notification
\* that opens a stage is followed by the notification that closes the stage
\* or by an error notification.
C17_StartIsClosed ==
    \A p \in DOMAIN Matching :
        (last[1].at = p) ~> (last[1].at \in Matching[p] \/ last[1].ev \in ErrorEvents)

\* The archive adapter raised an error the unpacking does not map, and the
\* failure was notified.
C17_Witness ==
    \E i \in Importers :
        /\ imp[i].exc = Some("OtherError")
        /\ imp[i].archive # None
        /\ imp[i].original = None
        /\ last[i].ev = "FILE_ERROR"

\* ------------------------------------------------------------------ C18
\* C18: a conversion that returned something falsy or left no target file
\* is notified as ERROR_CONVERSION once: no ERROR_CONVERSION notification
\* comes right after another one, and the run ends with
\* FormatConversionProblem.
C18_ConversionErrorNotifiedOnce ==
    [][\A i \in Importers :
          /\ (last'[i] # last[i] /\ last'[i].ev = "ERROR_CONVERSION")
                => last[i].ev # "ERROR_CONVERSION"
          /\ (pc'[i] = "done" /\ imp'[i].conversion # None
                 /\ Get(imp'[i].conversion).r # "raise"
                 /\ ConversionFailed(Get(imp'[i].conversion).r,
                                     Get(imp'[i].conversion).written))
                => imp'[i].raised = Some("FormatConversionProblem")]_vars

\* ------------------------------------------------------------------ C19
\* Run i converted its Original and the spatial deployment has ended.
ConvertedSpatialAccepted(i) ==
    /\ imp[i].conversion # None
    /\ pc[i] = "L284" \/ last[i].at = "L284"

\* Run i deployed no histogram and did not succeed.
NoHistogram(i) ==
    /\ imp[i].histogram_path = None
    /\ imp[i].histogram = None
    /\ Holding(i, HISTOGRAM_STEM) = {}
    /\ last[i].ev # "END_SUCCESSFUL_IMPORT"
    /\ ~Succeeded(i)

\* C19: on the conversion path the spatial deployment ends only when the
\* restricted registry matched the conversion output and the integrity check
\* that followed found no error; a run whose conversion output is not
\* matched ends with NoMatchingFormatProblem, one whose integrity check
\* found errors ends with ImageParsingProblem, both without a histogram.
C19_ConvertedSpatialVerified ==
    \A i \in Importers :
        /\ ConvertedSpatialAccepted(i) =>
              /\ imp[i].spatial_match = Some(TRUE)
              /\ imp[i].spatial_errors = Some(FALSE)
              /\ imp[i].spatial # None
        /\ imp[i].spatial_errors # None => imp[i].spatial_match = Some(TRUE)
        /\ imp[i].spatial_match = Some(FALSE) =>
              /\ NoHistogram(i)
              /\ Done(i) => imp[i].raised = Some("NoMatchingFormatProblem")
        /\ imp[i].spatial_errors = Some(TRUE) =>
              /\ NoHistogram(i)
              /\ Done(i) => imp[i].raised = Some("ImageParsingProblem")

\* ------------------------------------------------------------------ C20
\* Run i has transferred its pending file (133) and is at the notifications
\* that end the relocation, or at the start of the format detection.
AfterRelocation(i) == pc[i] \in {"L134", "L136", "L139"}

\* The relocation of run i failed: it chose an upload directory and is past
\* mkdir and move, and either mkdir raised, so that no upload path was
\* assigned (131), or move raised, so that no file is at the upload path.
RelocationFailed(i) ==
    /\ imp[i].upload_dir # None
    /\ pc[i] \notin {"L125", "L127"}
    /\ \/ imp[i].upload_path = None
       \/ ~Exists(fs, Get(imp[i].upload_path))

\* C20: once the pending file is transferred it is in the upload directory
\* under the override name, or under its own name when there is none, with
\* the content it had; with prefer_copy the pending file is still in the
\* pending area as it was, without it the pending file is gone. A run whose
\* mkdir of the upload directory or whose transfer failed ends with
\* FileErrorProblem and starts no format detection.
C20_RelocationEffects ==
    \A i \in Importers :
        /\ AfterRelocation(i) =>
              LET name == IF imp[i].pending_name # None THEN Get(imp[i].pending_name)
                          ELSE Name(imp[i].pending_file)
                  dest == Join(Get(imp[i].upload_dir), name)
                  pending == NodeAt(InitialFs, imp[i].pending_file)
              IN  /\ imp[i].upload_path = Some(dest)
                  /\ Exists(fs, dest)
                  /\ NodeAt(fs, dest) = [pending EXCEPT !.path = dest]
                  /\ IF imp[i].prefer_copy
                     THEN Exists(fs, imp[i].pending_file)
                          /\ NodeAt(fs, imp[i].pending_file) = pending
                     ELSE ~Exists(fs, imp[i].pending_file)
        /\ RelocationFailed(i) =>
              /\ imp[i].format = None
              /\ imp[i].archive = None
              /\ pc[i] # "L139"
              /\ last[i].ev # "START_FORMAT_DETECTION"
              /\ ~Succeeded(i)
              /\ Done(i) => imp[i].raised = Some("FileErrorProblem")

\* ------------------------------------------------------------------ C21
\* mkdir of run i's upload directory succeeded (125): run i is about to
\* transfer its pending file or has tried to.
DirCreated(i) ==
    /\ imp[i].upload_dir # None
    /\ pc[i] = "L127" \/ imp[i].upload_path # None

\* mkdir of run i's upload directory raised: run i is past it and assigned
\* no upload path (131).
MkdirFailed(i) ==
    /\ imp[i].upload_dir # None
    /\ pc[i] \notin {"L125", "L127"}
    /\ imp[i].upload_path = None

\* Run i lost its upload directory to another run that computed the same
\* name and created it.
LostUploadDir(i) ==
    /\ MkdirFailed(i)
    /\ \E j \in Importers \ {i} : imp[j].upload_dir = imp[i].upload_dir /\ DirCreated(j)

\* Run i is the only one that was given its pending file.
OwnPendingFile(i) ==
    \A j \in Importers \ {i} : imp[j].pending_file # imp[i].pending_file

\* C21: of the runs that computed the same upload directory name at most one
\* creates the directory; a run that lost it ends with FileErrorProblem
\* without transferring its pending file, which is left in the pending area
\* as it was; no two runs transfer into the same upload directory.
C21_CollisionLoserFails ==
    \A i \in Importers :
        /\ \A j \in Importers \ {i} :
              (DirCreated(i) /\ DirCreated(j)) => imp[i].upload_dir # imp[j].upload_dir
        /\ \A j \in Importers \ {i} :
              (imp[i].upload_path # None /\ imp[j].upload_path # None)
                  => Parent(Get(imp[i].upload_path)) # Parent(Get(imp[j].upload_path))
        /\ LostUploadDir(i) =>
              /\ pc[i] \notin {"L134", "L136", "L322"}
              /\ ~Succeeded(i)
              /\ OwnPendingFile(i) =>
                    /\ Exists(fs, imp[i].pending_file)
                    /\ NodeAt(fs, imp[i].pending_file) = NodeAt(InitialFs, imp[i].pending_file)
              /\ Done(i) => imp[i].raised = Some("FileErrorProblem")

\* ------------------------------------------------------------------ C22
\* A density that is a number, zero included.
NumericDensity(physical_size) ==
    physical_size.t = "num" /\ parse_float(physical_size) # None

\* What a total computation gives: a physical size, or None.
SizeOrUnknown(size) == size.kind \in {"quantity", "None"}

\* C22: on a numeric density (and, for PNG, a recognized unit) the
\* physical-size computations give a size or None and raise nothing; the
\* density zero gives None.
C22_TotalOnNumericDensities ==
    /\ meta.call = "PNGParser.parse_physical_size" =>
          ((NumericDensity(meta.physical_size) /\ ~UnrecognizedUnit(meta.unit)) =>
              /\ SizeOrUnknown(meta.result)
              /\ (meta.inverse /\ meta.physical_size = Num(0)) => meta.result = NoSize)
    /\ meta.call = "BMPParser.parse_known_metadata" =>
          /\ meta.result.kind = "imd"
          /\ NumericDensity(meta.raw.PixelsPerMeterX) =>
                /\ SizeOrUnknown(meta.result.x)
                /\ meta.raw.PixelsPerMeterX = Num(0) => meta.result.x = NoSize
          /\ NumericDensity(meta.raw.PixelsPerMeterY) =>
                /\ SizeOrUnknown(meta.result.y)
                /\ meta.raw.PixelsPerMeterY = Num(0) => meta.result.y = NoSize

====
